---------------------------- MODULE Spec2Model ----------------------------
(***************************************************************************)
(* Model of the FastMCP weather demo.                                      *)
(*                                                                         *)
(*   src/server.py  the Tool Host: get_weather and get_weather_forecast    *)
(*   src/client.py  the Orchestrator: MCPClient.chat_loop, call_llm,       *)
(*                  _call_groq, _handle_tool_calls, _simple_weather_response*)
(*                                                                         *)
(* The two programs are separate processes without shared state, so each   *)
(* has its own specification: ServerSpec runs one tool call of the Tool    *)
(* Host against a weather-provider outcome, Spec runs the Orchestrator's   *)
(* chat loop against an LLM provider and a Tool Host.                      *)
(*                                                                         *)
(* Python values are tagged records [t |-> type, v |-> payload]; a Python  *)
(* evaluation is a record [exc |-> class raised or "", val |-> value].     *)
(* Text is a sequence of pieces: a user utterance is a sequence of single  *)
(* characters, an f-string is the concatenation of its literal pieces and  *)
(* its formatted values.                                                   *)
(***************************************************************************)
EXTENDS Integers, Sequences, FiniteSets, TLC

VARIABLES
    \* ---- Tool Host (src/server.py) ----
    spc,            \* position of the tool call: "idle", "fetching", "returned"
    tool,           \* name of the tool being run
    days,           \* the `days` argument of get_weather_forecast
    provider,       \* outcome of requests.get to the weather provider
    tool_return,    \* what the tool function produced (return value or raise)
    \* ---- Orchestrator (src/client.py) ----
    environ,        \* GROQ_API_KEY in the environment (None: unset)
    groq_api_key,   \* MCPClient.groq_api_key
    pc,             \* where the chat loop stands (see ClientNext)
    message,        \* the utterance being handled
    data,           \* the request body of _call_groq / _handle_tool_calls
    llm_result,     \* `result` of _call_groq: the first reply, decoded
    tool_result,    \* `tool_result` of _handle_tool_calls (line 91)
    events,         \* requests sent for this utterance, in order: to the LLM
                    \* provider and to the Tool Host
    city,           \* `city` of _simple_weather_response
    host,           \* what call_tool answered to _simple_weather_response
    llm_failed,     \* the except clause of call_llm was entered
    last_reply,     \* the LLM reply whose content call_llm returned
    response,       \* what call_llm returned
    prev            \* history: the previous utterance handled without an LLM
                    \* credential, kept while the same utterance is handled again

svars == <<spc, tool, days, provider, tool_return>>
cvars == <<environ, groq_api_key, pc, message, data, llm_result, tool_result, events, city,
           host, llm_failed, last_reply, response, prev>>
vars == <<svars, cvars>>

(***************************************************************************)
(* Bounds of the model.                                                    *)
(***************************************************************************)
\* Largest number of day entries in the provider's "weather" array.
MaxWeatherDays == 5
\* Smallest value of `days` tried is -MaxNegDays.
MaxNegDays == 2
\* Largest value of `days` tried.
MaxDaysArg == 5
\* Longest text typed after "weather in ".
MaxTail == 2
\* Largest number of tool-call requests in one LLM reply.
MaxToolCalls == 2

(***************************************************************************)
(* Python values and evaluation results.                                   *)
(***************************************************************************)
\* The tag t is written before the payload v: TLC compares two records field
\* by field in the order in which the field names first occur, and two values
\* of different tags differ at the tag.
Str(s)  == [t |-> "str",  v |-> s]
List(q) == [t |-> "list", v |-> q]
Dict(f) == [t |-> "dict", v |-> f]
Null    == [t |-> "null", v |-> ""]

Ok(x)         == [exc |-> "", val |-> x]
Raise(cls, m) == [exc |-> cls, val |-> Str(m)]

\* A subscript: x["name"] or x[i].
Key(s) == [isIdx |-> FALSE, k |-> s, i |-> 0]
Idx(n) == [isIdx |-> TRUE, k |-> "", i |-> n]

\* x[key] as Python evaluates it (0-based indices; negative indices count
\* from the end).
Subscript(x, key) ==
    CASE x.t = "dict" ->
           IF ~key.isIdx /\ key.k \in DOMAIN x.v
           THEN Ok(x.v[key.k])
           ELSE Raise("KeyError", IF key.isIdx THEN "0" ELSE key.k)
      [] x.t = "list" ->
           IF ~key.isIdx
           THEN Raise("TypeError", "list indices must be integers or slices, not str")
           ELSE LET n == Len(x.v)
                    p == IF key.i < 0 THEN key.i + n ELSE key.i
                IN IF p >= 0 /\ p < n
                   THEN Ok(x.v[p + 1])
                   ELSE Raise("IndexError", "list index out of range")
      [] x.t = "str" ->
           IF ~key.isIdx
           THEN Raise("TypeError", "string indices must be integers")
           ELSE IF key.i = 0 /\ x.v # ""
                THEN Ok(Str("<char>"))
                ELSE Raise("IndexError", "string index out of range")
      [] OTHER -> Raise("TypeError", "object is not subscriptable")

\* r[k1][k2]...: the chain stops at the first subscript that raises.
RECURSIVE Walk(_, _)
Walk(r, path) ==
    IF r.exc # "" \/ path = <<>>
    THEN r
    ELSE Walk(Subscript(r.val, Head(path)), Tail(path))

\* min(a, b)
Min(a, b) == IF a <= b THEN a ELSE b
Max(a, b) == IF a >= b THEN a ELSE b

\* Number of elements of q[:stop] for a list of n elements.
SliceStop(n, stop) ==
    IF stop >= 0 THEN Min(stop, n) ELSE Max(n + stop, 0)

\* x[:stop] of a list, a dict or None (the documents of the model hold
\* nothing else under "weather").
SliceTo(x, stop) ==
    CASE x.t = "list" -> Ok(List(SubSeq(x.v, 1, SliceStop(Len(x.v), stop))))
      [] x.t = "dict" -> Raise("TypeError", "unhashable type: 'slice'")
      [] x.t = "null" -> Raise("TypeError", "'NoneType' object is not subscriptable")

\* Python's exception hierarchy, as far as the except clauses need it.
RequestExceptions == {"ConnectionError", "Timeout", "HTTPError",
                      "RequestsJSONDecodeError"}
IsInstance(cls, of) ==
    CASE of = "Exception"        -> TRUE
      [] of = "RequestException" -> cls \in RequestExceptions
      [] OTHER                   -> cls = of

\* The first evaluation of a sequence that raises, or the last one.
RECURSIVE FirstRaise(_)
FirstRaise(rs) ==
    IF Len(rs) = 1 \/ Head(rs).exc # "" THEN Head(rs) ELSE FirstRaise(Tail(rs))


\* An f-string: its literal pieces and formatted values, in order.
FStr(pieces) == [t |-> "fstr", v |-> pieces]

\* try: r  except <classes> as e: return {"error": f"<prefix>{str(e)}"}
\* The first clause whose classes include the raised one handles it; with no
\* such clause the exception leaves the function.
RECURSIVE TryExcept(_, _)
TryExcept(r, handlers) ==
    IF r.exc = "" \/ handlers = <<>>
    THEN r
    ELSE IF \E c \in Head(handlers).catch : IsInstance(r.exc, c)
         THEN Ok(Dict([error |-> FStr(<<Str(Head(handlers).prefix), r.val>>)]))
         ELSE TryExcept(r, Tail(handlers))

(***************************************************************************)
(* The weather provider (wttr.in ?format=j1) as the tools see it.          *)
(***************************************************************************)
Without(d, k) == Dict([x \in DOMAIN d.v \ {k} |-> d.v[x]])
With(d, k, val) ==
    Dict([x \in DOMAIN d.v \cup {k} |-> IF x = k THEN val ELSE d.v[x]])

ValueOf(s) == List(<<Dict([value |-> Str(s)])>>)

GoodCurrent ==
    Dict([temp_C |-> Str("20"), temp_F |-> Str("68"),
          FeelsLikeC |-> Str("19"), FeelsLikeF |-> Str("66"),
          weatherDesc |-> ValueOf("Sunny"), humidity |-> Str("40"),
          pressure |-> Str("1015"), windspeedKmph |-> Str("11"),
          winddir16Point |-> Str("NW"), visibility |-> Str("10"),
          uvIndex |-> Str("5"), localObsDateTime |-> Str("2024-01-01 12:00 PM")])

GoodArea ==
    Dict([areaName |-> ValueOf("Paris"), country |-> ValueOf("France"),
          region |-> ValueOf("Ile-de-France")])

GoodHour == Dict([weatherDesc |-> ValueOf("Cloudy")])

GoodDay ==
    Dict([date |-> Str("2024-01-01"),
          maxtempC |-> Str("21"), maxtempF |-> Str("70"),
          mintempC |-> Str("12"), mintempF |-> Str("54"),
          hourly |-> List(<<GoodHour, GoodHour, GoodHour, GoodHour, GoodHour>>),
          astronomy |-> List(<<Dict([sunrise |-> Str("07:00 AM"),
                                     sunset |-> Str("05:00 PM")])>>),
          uvIndex |-> Str("3")])

\* The document with the given current condition, area and day entries.
Doc(cur, area, daySeq) ==
    Dict([current_condition |-> cur, nearest_area |-> area,
          weather |-> List(daySeq)])

GoodDays(n) == [i \in 1..n |-> GoodDay]
GoodDoc(n) == Doc(List(<<GoodCurrent>>), List(<<GoodArea>>), GoodDays(n))

\* Number of day entries wttr.in sends (src/server.py:84, "wttr.in gives 3 days").
ProviderDays == 3

\* A malformed day entry.
BadDay(kind) ==
    CASE kind = "day_no_date"      -> Without(GoodDay, "date")
      [] kind = "day_short_hourly" ->
            With(GoodDay, "hourly", List(<<GoodHour, GoodHour, GoodHour, GoodHour>>))
      [] kind = "day_no_astronomy" -> With(GoodDay, "astronomy", List(<<>>))
      [] kind = "day_is_str"       -> Str("2024-01-01")
DayDefects == {"day_no_date", "day_short_hourly", "day_no_astronomy", "day_is_str"}

\* A document whose defect lies outside the "weather" array.
DefectDoc(kind) ==
    LET cur(c) == Doc(List(<<c>>), List(<<GoodArea>>), GoodDays(ProviderDays))
        area(a) == Doc(List(<<GoodCurrent>>), List(<<a>>), GoodDays(ProviderDays))
    IN CASE kind = "top_is_list"        -> List(<<GoodDoc(ProviderDays)>>)
         [] kind = "top_is_str"         -> Str("Unknown location")
         [] kind = "top_is_null"        -> Null
         [] kind = "no_current"         -> Without(GoodDoc(ProviderDays), "current_condition")
         [] kind = "current_empty"      ->
               Doc(List(<<>>), List(<<GoodArea>>), GoodDays(ProviderDays))
         [] kind = "current_is_dict"    ->
               Doc(GoodCurrent, List(<<GoodArea>>), GoodDays(ProviderDays))
         [] kind = "current_no_humidity" -> cur(Without(GoodCurrent, "humidity"))
         [] kind = "current_no_obs_time" -> cur(Without(GoodCurrent, "localObsDateTime"))
         [] kind = "desc_empty"         -> cur(With(GoodCurrent, "weatherDesc", List(<<>>)))
         [] kind = "desc_of_str"        ->
               cur(With(GoodCurrent, "weatherDesc", List(<<Str("Sunny")>>)))
         [] kind = "no_area"            -> Without(GoodDoc(ProviderDays), "nearest_area")
         [] kind = "area_empty"         ->
               Doc(List(<<GoodCurrent>>), List(<<>>), GoodDays(ProviderDays))
         [] kind = "area_no_country"    -> area(Without(GoodArea, "country"))
         [] kind = "area_name_empty"    -> area(With(GoodArea, "areaName", List(<<>>)))
         [] kind = "area_no_region"     -> area(Without(GoodArea, "region"))
         [] kind = "no_weather"         -> Without(GoodDoc(ProviderDays), "weather")
         [] kind = "weather_is_dict"    ->
               With(GoodDoc(ProviderDays), "weather", Dict([d |-> GoodDay]))
         [] kind = "weather_is_null"    -> With(GoodDoc(ProviderDays), "weather", Null)

TopDefects     == {"top_is_list", "top_is_str", "top_is_null"}
CurrentDefects == {"no_current", "current_empty", "current_is_dict",
                   "current_no_humidity", "current_no_obs_time",
                   "desc_empty", "desc_of_str"}
AreaDefects    == {"no_area", "area_empty", "area_no_country", "area_name_empty"}
RegionDefects  == {"area_no_region"}
WeatherDefects == {"no_weather", "weather_is_dict", "weather_is_null"}

\* An outcome of requests.get(url, timeout=10) and of reading its body.
\*   net      "ok", or the requests exception the GET raised
\*   status   the HTTP status of the response
\*   json     whether the body is a JSON document
\*   jsonExc  what response.json() raises on a body that is not JSON:
\*            requests.exceptions.JSONDecodeError (a RequestException) in
\*            requests >= 2.27, a plain ValueError before
\*   doc      the decoded document
\*   defect   what is wrong with it ("none": nothing), day: the 1-based
\*            position of the malformed day entry
Outcome(net, status, json, jsonExc, doc, defect, day) ==
    [net |-> net, status |-> status, json |-> json, jsonExc |-> jsonExc,
     doc |-> doc, defect |-> defect, day |-> day]

ProviderOutcomes ==
       {Outcome(e, 0, FALSE, "", Null, e, 0) : e \in {"ConnectionError", "Timeout"}}
  \cup {Outcome("ok", s, TRUE, "", GoodDoc(ProviderDays), "status", 0) : s \in {404, 500}}
  \cup {Outcome("ok", 200, FALSE, x, Null, "not_json", 0) :
            x \in {"RequestsJSONDecodeError", "ValueError"}}
  \cup {Outcome("ok", 200, TRUE, "", GoodDoc(n), "none", 0) : n \in 0..MaxWeatherDays}
  \cup {Outcome("ok", 200, TRUE, "", DefectDoc(k), k, 0) :
            k \in TopDefects \cup CurrentDefects \cup AreaDefects
                  \cup RegionDefects \cup WeatherDefects}
  \cup {Outcome("ok", 200, TRUE, "",
                Doc(List(<<GoodCurrent>>), List(<<GoodArea>>),
                    [i \in 1..nd[1] |-> IF i = nd[2] THEN BadDay(k) ELSE GoodDay]),
                k, nd[2]) :
            k \in DayDefects,
            nd \in {x \in (1..MaxWeatherDays) \X (1..MaxWeatherDays) : x[2] <= x[1]}}


(***************************************************************************)
(* The tools (src/server.py).                                              *)
(***************************************************************************)
\* requests.get(url, timeout=10); response.raise_for_status(); response.json()
Fetch(p) ==
    IF p.net # "ok" THEN Raise(p.net, "request failed")
    ELSE IF p.status >= 400 THEN Raise("HTTPError", "error status for url")
    ELSE IF ~p.json THEN Raise(p.jsonExc, "Expecting value: line 1 column 1 (char 0)")
    ELSE Ok(p.doc)

\* The except clauses of get_weather, in order.
get_weather_no_catch_all ==
    <<[catch |-> {"RequestException"}, prefix |-> "Failed to fetch weather data: "],
      [catch |-> {"KeyError", "IndexError"}, prefix |-> "Failed to parse weather data: "]>>
get_weather_handlers ==
    <<[catch |-> {"RequestException"}, prefix |-> "Failed to fetch weather data: "],
      [catch |-> {"KeyError", "IndexError"}, prefix |-> "Failed to parse weather data: "],
      [catch |-> {"Exception"}, prefix |-> "Unexpected error: "]>>

\* The except clause of get_weather_forecast.
get_weather_forecast_handlers ==
    <<[catch |-> {"Exception"}, prefix |-> "Failed to get forecast: "]>>

\* The try block of get_weather: the subscripts in program order, then the
\* result mapping.
get_weather_try(p) ==
    LET json    == Fetch(p)
        current == Walk(json, <<Key("current_condition"), Idx(0)>>)
        area    == Walk(json, <<Key("nearest_area"), Idx(0)>>)
        cur(k)  == Walk(current, <<Key(k)>>)
        val(r, k) == Walk(r, <<Key(k), Idx(0), Key("value")>>)
        obs     == Walk(json, <<Key("current_condition"), Idx(0),
                                Key("localObsDateTime")>>)
        steps   == <<json, current, area,
                     val(area, "areaName"), val(area, "country"), val(area, "region"),
                     cur("temp_C"), cur("temp_F"),
                     cur("FeelsLikeC"), cur("FeelsLikeF"),
                     val(current, "weatherDesc"),
                     cur("humidity"), cur("pressure"), cur("windspeedKmph"),
                     cur("winddir16Point"), cur("visibility"), cur("uvIndex"),
                     obs>>
        first   == FirstRaise(steps)
    IN IF first.exc # ""
       THEN first
       ELSE Ok(Dict(
         [city           |-> val(area, "areaName").val,
          country        |-> val(area, "country").val,
          region         |-> val(area, "region").val,
          temperature    |-> FStr(<<cur("temp_C").val, Str("°C ("),
                                    cur("temp_F").val, Str("°F)")>>),
          feels_like     |-> FStr(<<cur("FeelsLikeC").val, Str("°C ("),
                                    cur("FeelsLikeF").val, Str("°F)")>>),
          description    |-> val(current, "weatherDesc").val,
          humidity       |-> FStr(<<cur("humidity").val, Str("%")>>),
          pressure       |-> FStr(<<cur("pressure").val, Str(" mb")>>),
          wind_speed     |-> FStr(<<cur("windspeedKmph").val, Str(" km/h")>>),
          wind_direction |-> cur("winddir16Point").val,
          visibility     |-> FStr(<<cur("visibility").val, Str(" km")>>),
          uv_index       |-> cur("uvIndex").val,
          local_time     |-> obs.val]))

\* get_weather(city)
get_weather(p) == TryExcept(get_weather_try(p), get_weather_handlers)

\* One pass of the loop body of get_weather_forecast: the entry appended for
\* `day`, or the exception its subscripts raise.
ForecastEntry(day) ==
    LET d(path) == Walk(Ok(day), path)
        date == d(<<Key("date")>>)
        maxC == d(<<Key("maxtempC")>>)
        maxF == d(<<Key("maxtempF")>>)
        minC == d(<<Key("mintempC")>>)
        minF == d(<<Key("mintempF")>>)
        desc == d(<<Key("hourly"), Idx(4), Key("weatherDesc"), Idx(0), Key("value")>>)
        rise == d(<<Key("astronomy"), Idx(0), Key("sunrise")>>)
        set  == d(<<Key("astronomy"), Idx(0), Key("sunset")>>)
        uv   == d(<<Key("uvIndex")>>)
        first == FirstRaise(<<date, maxC, maxF, minC, minF, desc, rise, set, uv>>)
    IN IF first.exc # ""
       THEN first
       ELSE Ok(Dict(
         [date        |-> date.val,
          max_temp    |-> FStr(<<maxC.val, Str("°C ("), maxF.val, Str("°F)")>>),
          min_temp    |-> FStr(<<minC.val, Str("°C ("), minF.val, Str("°F)")>>),
          description |-> desc.val,
          sunrise     |-> rise.val,
          sunset      |-> set.val,
          uv_index    |-> uv.val]))

\* The upper limit of the slice of data["weather"].
ForecastLimit == 3

\* The try block of get_weather_forecast.
get_weather_forecast_try(p, d) ==
    LET json     == Fetch(p)
        weather  == Walk(json, <<Key("weather")>>)
        forecast_days ==
            IF weather.exc # "" THEN weather
            ELSE SliceTo(weather.val, Min(d, ForecastLimit))
        area     == Walk(json, <<Key("nearest_area"), Idx(0)>>)
        entries  == IF forecast_days.exc # "" THEN <<>>
                    ELSE [i \in 1..Len(forecast_days.val.v) |->
                             ForecastEntry(forecast_days.val.v[i])]
        val(k)   == Walk(area, <<Key(k), Idx(0), Key("value")>>)
        first    == FirstRaise(<<json, forecast_days, area>> \o entries
                               \o <<val("areaName"), val("country")>>)
    IN IF first.exc # ""
       THEN first
       ELSE Ok(Dict(
         [city     |-> val("areaName").val,
          country  |-> val("country").val,
          forecast |-> List([i \in 1..Len(entries) |-> entries[i].val])]))

\* get_weather_forecast(city, days)
get_weather_forecast(p, d) ==
    TryExcept(get_weather_forecast_try(p, d), get_weather_forecast_handlers)

(***************************************************************************)
(* One tool call of the Tool Host.                                         *)
(***************************************************************************)
\* The values of `days` a caller passes; get_weather takes none.
DaysValues == (0 - MaxNegDays)..MaxDaysArg
NoDays == 0

NoOutcome == Outcome("none", 0, FALSE, "", Null, "none", 0)
NoReturn  == [exc |-> "pending", val |-> Null]

ServerInit ==
    /\ spc = "idle"
    /\ tool = "none"
    /\ days = NoDays
    /\ provider = NoOutcome
    /\ tool_return = NoReturn

\* The framework calls get_weather(city).
InvokeGetWeather ==
    /\ spc = "idle"
    /\ spc' = "fetching"
    /\ tool' = "get_weather"
    /\ days' = NoDays
    /\ UNCHANGED <<provider, tool_return, cvars>>

\* The framework calls get_weather_forecast(city, days).
InvokeGetWeatherForecast ==
    /\ spc = "idle"
    /\ \E d \in DaysValues : days' = d
    /\ spc' = "fetching"
    /\ tool' = "get_weather_forecast"
    /\ UNCHANGED <<provider, tool_return, cvars>>

\* The weather provider answers (or the request fails) and the tool runs to
\* its end.
ToolRuns ==
    /\ spc = "fetching"
    /\ \E p \in ProviderOutcomes :
         /\ provider' = p
         /\ tool_return' = IF tool = "get_weather"
                           THEN get_weather(p)
                           ELSE get_weather_forecast(p, days)
    /\ spc' = "returned"
    /\ UNCHANGED <<tool, days, cvars>>

\* The result is sent; the Tool Host waits for the next call.
ToolDone ==
    /\ spc = "returned"
    /\ spc' = "idle"
    /\ tool' = "none"
    /\ days' = NoDays
    /\ provider' = NoOutcome
    /\ tool_return' = NoReturn
    /\ UNCHANGED cvars

ServerNext ==
    \/ InvokeGetWeather
    \/ InvokeGetWeatherForecast
    \/ ToolRuns
    \/ ToolDone

(***************************************************************************)
(* Text of the Orchestrator (src/client.py): a str the program inspects    *)
(* character by character is a sequence of single characters.              *)
(***************************************************************************)
UpperCase == <<"A", "B", "C", "D", "E", "F", "G", "H", "I", "J", "K", "L", "M",
               "N", "O", "P", "Q", "R", "S", "T", "U", "V", "W", "X", "Y", "Z">>
LowerCase == <<"a", "b", "c", "d", "e", "f", "g", "h", "i", "j", "k", "l", "m",
               "n", "o", "p", "q", "r", "s", "t", "u", "v", "w", "x", "y", "z">>
Whitespace == {" ", "\t", "\n"}

IsUpper(c) == \E i \in 1..Len(UpperCase) : UpperCase[i] = c
IsLower(c) == \E i \in 1..Len(LowerCase) : LowerCase[i] = c

\* A str held as characters.
Chars(q) == [t |-> "chars", v |-> q]

\* str.lower()
lower(q) ==
    [i \in 1..Len(q) |->
        IF IsUpper(q[i])
        THEN LowerCase[CHOOSE k \in 1..Len(UpperCase) : UpperCase[k] = q[i]]
        ELSE q[i]]

\* str.strip()
strip(q) ==
    LET keep == {i \in 1..Len(q) : q[i] \notin Whitespace}
    IN IF keep = {} THEN <<>>
       ELSE SubSeq(q, CHOOSE a \in keep : \A b \in keep : a <= b,
                      CHOOSE a \in keep : \A b \in keep : a >= b)

SetMin(S) == CHOOSE a \in S : \A b \in S : a <= b
SetMax(S) == CHOOSE a \in S : \A b \in S : a >= b

\* The literal `lit` stands in q at position i.
At(q, lit, i) ==
    /\ i >= 1
    /\ i + Len(lit) - 1 <= Len(q)
    /\ SubSeq(q, i, i + Len(lit) - 1) = lit

\* `.*` can span q[a..b]: `.` matches anything but a newline.
DotStar(q, a, b) == \A k \in a..b : q[k] # "\n"

\* ([^?]+) from position j: the longest run of characters other than "?".
NotQuestionEnd(q, j) ==
    SetMax({e \in j..Len(q) : \A k \in j..e : q[k] # "?"})
CanStartGroup(q, j) == j <= Len(q) /\ q[j] # "?"

NoMatch == [matched |-> FALSE, group1 |-> <<>>]
Match(g) == [matched |-> TRUE, group1 |-> g]

\* re.search(r"<lit>([^?]+)", q)
SearchLiteral(q, lit) ==
    LET starts == {i \in 1..Len(q) : At(q, lit, i) /\ CanStartGroup(q, i + Len(lit))}
    IN IF starts = {} THEN NoMatch
       ELSE LET j == SetMin(starts) + Len(lit)
            IN Match(SubSeq(q, j, NotQuestionEnd(q, j)))

\* re.search(r"<head>.*<mid>.*<lit>([^?]+)", q): the leftmost <head>, then
\* each `.*` as long as the rest still matches, the first one first.
SearchDotted(q, head, mid, lit) ==
    LET ks(j) == {k \in (j + Len(mid))..Len(q) :
                     /\ At(q, lit, k)
                     /\ DotStar(q, j + Len(mid), k - 1)
                     /\ CanStartGroup(q, k + Len(lit))}
        js(i) == {j \in (i + Len(head))..Len(q) :
                     /\ At(q, mid, j)
                     /\ DotStar(q, i + Len(head), j - 1)
                     /\ ks(j) # {}}
        is    == {i \in 1..Len(q) : At(q, head, i) /\ js(i) # {}}
    IN IF is = {} THEN NoMatch
       ELSE LET j == SetMax(js(SetMin(is)))
                g == SetMax(ks(j)) + Len(lit)
            IN Match(SubSeq(q, g, NotQuestionEnd(q, g)))

\* [a-z]+ from position j: the end of the run of lower-case letters.
LowerRunEnd(q, j) ==
    SetMax({e \in j..Len(q) : \A k \in j..e : IsLower(q[k])})

\* (?:\s+[A-Z][a-z]+)* from the character after position e: the end of the
\* last capitalised word it takes.
RECURSIVE WordsEnd(_, _)
WordsEnd(q, e) ==
    LET ws == {w \in (e + 1)..Len(q) : \A k \in (e + 1)..w : q[k] \in Whitespace}
        w  == IF ws = {} THEN e ELSE SetMax(ws)
    IN IF /\ w > e
          /\ w + 2 <= Len(q)
          /\ IsUpper(q[w + 1])
          /\ IsLower(q[w + 2])
       THEN WordsEnd(q, LowerRunEnd(q, w + 2))
       ELSE e

\* re.search(r"<head>.*([A-Z][a-z]+(?:\s+[A-Z][a-z]+)*)", q)
SearchCapitalised(q, head) ==
    LET js(i) == {j \in (i + Len(head))..(Len(q) - 1) :
                     /\ DotStar(q, i + Len(head), j - 1)
                     /\ IsUpper(q[j])
                     /\ IsLower(q[j + 1])}
        is    == {i \in 1..Len(q) : At(q, head, i) /\ js(i) # {}}
    IN IF is = {} THEN NoMatch
       ELSE LET j == SetMax(js(SetMin(is)))
            IN Match(SubSeq(q, j, WordsEnd(q, LowerRunEnd(q, j + 1))))

W_weather == <<"w", "e", "a", "t", "h", "e", "r">>
W_weather_in == <<"w", "e", "a", "t", "h", "e", "r", " ", "i", "n", " ">>
W_weather_for == <<"w", "e", "a", "t", "h", "e", "r", " ", "f", "o", "r", " ">>
W_hows == <<"h", "o", "w", "'", "s">>
W_whats == <<"w", "h", "a", "t", "'", "s">>
W_in == <<"i", "n", " ">>

\* weather_patterns, in order.
weather_patterns ==
    <<[kind |-> "literal", head |-> W_weather_in,  mid |-> <<>>, lit |-> <<>>],
      [kind |-> "literal", head |-> W_weather_for, mid |-> <<>>, lit |-> <<>>],
      [kind |-> "dotted",  head |-> W_hows,  mid |-> W_weather, lit |-> W_in],
      [kind |-> "dotted",  head |-> W_whats, mid |-> W_weather, lit |-> W_in],
      [kind |-> "capitalised", head |-> W_weather, mid |-> <<>>, lit |-> <<>>]>>

\* re.search(pattern, q)
re_search(pattern, q) ==
    CASE pattern.kind = "literal"     -> SearchLiteral(q, pattern.head)
      [] pattern.kind = "dotted"      ->
            SearchDotted(q, pattern.head, pattern.mid, pattern.lit)
      [] pattern.kind = "capitalised" -> SearchCapitalised(q, pattern.head)

\* message.lower().strip()
message_keep_case(m) == strip(m)
message_lower(m) == strip(lower(m))

\* The loop over weather_patterns: the index of the first pattern that
\* matches (0: none) and the city it gives, match.group(1).strip().
ExtractCity(m) ==
    LET q    == message_lower(m)
        hits == {i \in 1..Len(weather_patterns) : re_search(weather_patterns[i], q).matched}
    IN IF hits = {}
       THEN [pattern |-> 0, city |-> <<>>]
       ELSE [pattern |-> SetMin(hits),
             city |-> strip(re_search(weather_patterns[SetMin(hits)], q).group1)]


(***************************************************************************)
(* Values the Orchestrator handles.                                        *)
(***************************************************************************)
PyInt(n)  == [t |-> "int", v |-> n]
\* An object of a class the program does not define (fastmcp's result types).
Object(c) == [t |-> "object", v |-> c]

W_error == <<"e", "r", "r", "o", "r">>
W_paris == <<"p", "a", "r", "i", "s">>
W_rome == <<"r", "o", "m", "e">>
W_boom == <<"b", "o", "o", "m">>
W_an_error_string == <<"a", "n", " ", "e", "r", "r", "o", "r", " ", "s", "t", "r", "i", "n", "g">>
W_Paris == <<"P", "a", "r", "i", "s">>
W_40pct == <<"4", "0", "%">>

\* json.loads on the texts that occur in the model: the value each decodes
\* to. Any other text is not JSON.
JsonTexts ==
       ("{\"city\": \"paris\"}" :> Dict([city |-> Chars(W_paris)]))
    @@ ("{\"city\": \"rome\", \"days\": 5}" :>
            Dict([city |-> Chars(W_rome), days |-> PyInt(5)]))
    @@ ("[\"paris\"]" :> List(<<Chars(W_paris)>>))
    @@ ("{\"error\": \"boom\"}" :> Dict([error |-> Chars(W_boom)]))
    @@ ("{\"city\": \"Paris\", \"humidity\": \"40%\"}" :>
            Dict([city |-> Chars(W_Paris), humidity |-> Chars(W_40pct)]))
    @@ ("[1, 2]" :> List(<<PyInt(1), PyInt(2)>>))
    @@ ("5" :> PyInt(5))
    @@ ("\"an error string\"" :> Chars(W_an_error_string))
    @@ ("null" :> Null)
    @@ ("[\"error\"]" :> List(<<Chars(W_error)>>))

IsStr(x) == x.t \in {"str", "chars"}

\* json.loads(x)
json_loads(x) ==
    IF x.t # "str"
    THEN Raise("TypeError", "the JSON object must be str, bytes or bytearray")
    ELSE IF x.v \in DOMAIN JsonTexts
         THEN Ok(JsonTexts[x.v])
         ELSE Raise("JSONDecodeError", "Expecting value")

\* str(x)
StrOf(x) == IF IsStr(x) THEN x ELSE [t |-> "repr", v |-> x]

\* bool(x)
Truthy(x) ==
    CASE x.t = "null"   -> FALSE
      [] x.t = "list"   -> x.v # <<>>
      [] x.t = "dict"   -> DOMAIN x.v # {}
      [] x.t = "str"    -> x.v # ""
      [] x.t = "chars"  -> x.v # <<>>
      [] x.t = "int"    -> x.v # 0
      [] OTHER          -> TRUE

\* x.get(k, default)
DictGet(x, k, default) ==
    IF x.t = "dict"
    THEN Ok(IF k \in DOMAIN x.v THEN x.v[k] ELSE default)
    ELSE Raise("AttributeError", "object has no attribute 'get'")

\* "error" in x
ContainsError(x) ==
    CASE x.t = "dict"  -> Ok("error" \in DOMAIN x.v)
      [] x.t = "list"  -> Ok(\E i \in 1..Len(x.v) : x.v[i] = Chars(W_error))
      [] x.t = "chars" -> Ok(\E i \in 1..Len(x.v) : At(x.v, W_error, i))
      [] x.t \in {"int", "null", "object"} ->
            Raise("TypeError", "argument is not iterable")

(***************************************************************************)
(* The Tool Host as the Orchestrator sees it: what await client.call_tool  *)
(* gives back.                                                             *)
(***************************************************************************)
PlainOutcome(doc) == Outcome("ok", 200, TRUE, "", doc, "none", 0)
GoodResult  == get_weather(PlainOutcome(GoodDoc(ProviderDays))).val
ErrorResult == get_weather(Outcome("Timeout", 0, FALSE, "", Null, "Timeout", 0)).val

\* The keys the template of _simple_weather_response reads.
DisplayedFields == {"city", "temperature", "feels_like", "description", "humidity",
                    "wind_speed", "wind_direction", "visibility", "uv_index"}

ToolTexts == {"{\"error\": \"boom\"}", "{\"city\": \"Paris\", \"humidity\": \"40%\"}",
              "[1, 2]", "5", "\"an error string\"", "null", "[\"error\"]",
              "Sunny, 20 degrees"}

ToolHostValues ==
       {GoodResult, ErrorResult, Dict([country |-> Str("France")])}
  \cup {Without(GoodResult, f) : f \in DisplayedFields}
  \cup {Str(x) : x \in ToolTexts}
  \cup {List(<<Object("TextContent")>>), Object("CallToolResult")}

\* call_tool returns a value, or raises the fault of the Tool Host.
ToolHostOutcomes ==
    {Raise("ToolError", "Error calling tool")} \cup {Ok(x) : x \in ToolHostValues}

(***************************************************************************)
(* _simple_weather_response (src/client.py:115-169)                        *)
(***************************************************************************)
HelpMessage ==
    Str("I can help you get weather information! Please ask like 'What's the weather in [city name]?'")

\* The slots of the template: the text before the value, the key read and
\* the default of .get (the emoji of the source's labels are left out).
NA == Str("N/A")
TemplateSlots(c, humidity_default, wind_direction_default) ==
    <<[label |-> "Here's the current weather for ", key |-> "city", default |-> Chars(c)],
      [label |-> ":\n\nTemperature: ", key |-> "temperature",    default |-> NA],
      [label |-> "\nFeels like: ",     key |-> "feels_like",     default |-> NA],
      [label |-> "\nConditions: ",     key |-> "description",    default |-> NA],
      [label |-> "\nHumidity: ",       key |-> "humidity",       default |-> humidity_default],
      [label |-> "\nWind: ",           key |-> "wind_speed",     default |-> NA],
      [label |-> " ",                  key |-> "wind_direction", default |-> wind_direction_default],
      [label |-> "\nVisibility: ",     key |-> "visibility",     default |-> NA],
      [label |-> "\nUV Index: ",       key |-> "uv_index",       default |-> NA]>>
template_blank_humidity(c) == TemplateSlots(c, Str(""), Str(""))
template(c) == TemplateSlots(c, NA, Str(""))

\* The f-string of lines 158-166: label, value, label, value, ...
RenderTemplate(c, weather_data) ==
    LET slots == template(c)
        gets  == [i \in 1..Len(slots) |->
                     DictGet(weather_data, slots[i].key, slots[i].default)]
        first == FirstRaise(gets)
    IN IF first.exc # ""
       THEN first
       ELSE Ok(FStr([i \in 1..(2 * Len(slots)) |->
                        IF i % 2 = 1 THEN Str(slots[(i + 1) \div 2].label)
                        ELSE gets[i \div 2].val]))

\* Lines 145-152: a str result is decoded, and kept under "raw" when it is
\* not JSON.
ParseToolResult(tr) ==
    IF IsStr(tr)
    THEN LET loaded == json_loads(tr)
         IN IF loaded.exc = "" THEN loaded.val ELSE Dict([raw |-> tr])
    ELSE tr

\* Lines 154-166: the error line or the template.
FormatResponse(c, weather_data) ==
    LET has == ContainsError(weather_data)
    IN IF has.exc # "" THEN has
       ELSE IF has.val
            THEN LET e == Subscript(weather_data, Key("error"))
                 IN IF e.exc # "" THEN e
                    ELSE Ok(FStr(<<Str("Sorry, I couldn't get weather data for "),
                                   Chars(c), Str(": "), e.val>>))
            ELSE RenderTemplate(c, weather_data)

\* The classes the except clause of line 168 catches.
simple_weather_catches_none == {}
simple_weather_catches == {"Exception"}

\* Lines 141-169 once call_tool has answered with `h`: the text returned, or
\* the exception that leaves the function.
AfterToolCall(c, h) ==
    LET body == IF h.exc # "" THEN h ELSE FormatResponse(c, ParseToolResult(h.val))
    IN IF body.exc # "" /\ \E k \in simple_weather_catches : IsInstance(body.exc, k)
       THEN Ok(FStr(<<Str("Sorry, I had trouble getting the weather for "),
                      Chars(c), Str(": "), body.val>>))
       ELSE body


(***************************************************************************)
(* The LLM provider as the Orchestrator sees it.                           *)
(***************************************************************************)
SystemPrompt ==
    Str("You are a helpful weather assistant. When users ask about weather, use the get_weather tool to get current conditions.")

\* tools_info of chat_loop: the catalog list_tools() gave.
tools_available ==
    <<Dict([name |-> Str("get_weather"),
            description |-> Str("Get current weather for a city using free wttr.in API"),
            inputSchema |-> Dict([required |-> List(<<Str("city")>>)])]),
      Dict([name |-> Str("get_weather_forecast"),
            description |-> Str("Get weather forecast for a city using free wttr.in API"),
            inputSchema |-> Dict([required |-> List(<<Str("city")>>)])])>>

\* tools_schema of call_llm (lines 26-35).
tools_schema ==
    List([i \in 1..Len(tools_available) |->
            Dict([type |-> Str("function"),
                  function |->
                    Dict([name |-> tools_available[i].v.name,
                          description |-> tools_available[i].v.description,
                          parameters |->
                            DictGet(tools_available[i], "inputSchema", Dict(<<>>)).val])])])

SystemMessage  == Dict([role |-> Str("system"), content |-> SystemPrompt])
UserMessage(m) == Dict([role |-> Str("user"), content |-> Chars(m)])

\* `data` of _call_groq (lines 54-65).
InitialData(m) ==
    Dict([model |-> Str("llama3-8b-8192"),
          messages |-> List(<<SystemMessage, UserMessage(m)>>),
          tools |-> tools_schema,
          max_tokens |-> PyInt(1000)])

\* The i-th tool-call request of a reply.
ToolCallRequest(i) ==
    Dict([id |-> Str("call_" \o ToString(i)),
          type |-> Str("function"),
          function |->
            Dict([name |-> Str(IF i = 1 THEN "get_weather" ELSE "get_weather_forecast"),
                  arguments |-> Str(IF i = 1 THEN "{\"city\": \"paris\"}"
                                    ELSE "{\"city\": \"rome\", \"days\": 5}")])])
WithArguments(call, a) ==
    With(call, "function", With(call.v.function, "arguments", a))

ChatBody(msg) == Dict([choices |-> List(<<Dict([message |-> msg])>>)])
Assistant(content, calls) ==
    Dict([role |-> Str("assistant"), content |-> content, tool_calls |-> calls])
AssistantText == Str("It is sunny in Paris.")

\* Decoded bodies of a chat-completions reply.
LlmBodies ==
       {ChatBody(Dict([role |-> Str("assistant"), content |-> AssistantText])),
        ChatBody(Assistant(AssistantText, Null)),
        ChatBody(Assistant(AssistantText, List(<<>>)))}
  \cup {ChatBody(Assistant(Null, List([i \in 1..n |-> ToolCallRequest(i)]))) :
            n \in 1..MaxToolCalls}
  \cup {ChatBody(Assistant(Null, List(<<c>>))) :
            c \in {WithArguments(ToolCallRequest(1), Str("{city: paris")),
                   WithArguments(ToolCallRequest(1), Dict([city |-> Chars(W_paris)])),
                   WithArguments(ToolCallRequest(1), Str("[\"paris\"]")),
                   Without(ToolCallRequest(1), "function"),
                   Without(ToolCallRequest(1), "id")}}
  \cup {ChatBody(Dict([role |-> Str("assistant")])),
        Dict([error |-> Dict([message |-> Str("Invalid API Key")])]),
        Dict([choices |-> List(<<>>)]),
        Dict([choices |-> List(<<Dict([index |-> PyInt(0)])>>)]),
        List(<<>>)}

\* Outcomes of requests.post(url, ..., timeout=30.0) and of reading its body.
LlmOutcomes ==
       {Outcome(e, 0, FALSE, "", Null, e, 0) : e \in {"ConnectionError", "Timeout"}}
  \cup {Outcome("ok", st, TRUE, "", Null, "status", 0) : st \in {401, 500}}
  \cup {Outcome("ok", 200, FALSE, x, Null, "not_json", 0) :
            x \in {"RequestsJSONDecodeError", "ValueError"}}
  \cup {Outcome("ok", 200, TRUE, "", b, "none", 0) : b \in LlmBodies}

(***************************************************************************)
(* _handle_tool_calls (src/client.py:78-113), as functions of `result`.    *)
(***************************************************************************)
\* message_result = result["choices"][0]["message"]
MessageResult(result) ==
    Walk(Ok(result), <<Key("choices"), Idx(0), Key("message")>>)

\* message_result.get("tool_calls")
RequestedCalls(result) ==
    LET m == MessageResult(result)
    IN IF m.exc # "" THEN m ELSE DictGet(m.val, "tool_calls", Null)

\* tool_call = message_result["tool_calls"][0]
ToolCallLast(result) == Walk(MessageResult(result), <<Key("tool_calls"), Idx(-1)>>)
ToolCall(result) == Walk(MessageResult(result), <<Key("tool_calls"), Idx(0)>>)

FunctionName(result) == Walk(ToolCall(result), <<Key("function"), Key("name")>>)

\* json.loads(tool_call["function"]["arguments"])
Arguments(result) ==
    LET raw == Walk(ToolCall(result), <<Key("function"), Key("arguments")>>)
    IN IF raw.exc # "" THEN raw ELSE json_loads(raw.val)

\* result["choices"][0]["message"]["content"]
Content(r) ==
    Walk(r, <<Key("choices"), Idx(0), Key("message"), Key("content")>>)

\* The follow-up request body (lines 97-107): the assistant message and the
\* tool-result message appended, the tools removed.
FollowUp(d, result, tool_content) ==
    LET id == Walk(ToolCall(result), <<Key("id")>>)
    IN IF id.exc # "" THEN id
       ELSE Ok(Without(
                 With(d, "messages",
                      List(d.v.messages.v \o
                           <<MessageResult(result).val,
                             Dict([role |-> Str("tool"), tool_call_id |-> id.val,
                                   content |-> tool_content])>>)),
                 "tools"))


(***************************************************************************)
(* The utterances tried.                                                   *)
(***************************************************************************)
U_paris == <<"W", "h", "a", "t", "'", "s", " ", "t", "h", "e", " ", "w", "e", "a", "t", "h", "e", "r", " ", "i", "n", " ", "P", "a", "r", "i", "s", "?">>
U_for == <<"w", "e", "a", "t", "h", "e", "r", " ", "f", "o", "r", " ", "R", "o", "m", "e">>
U_hows == <<"h", "o", "w", "'", "s", " ", "t", "h", "e", " ", "w", "e", "a", "t", "h", "e", "r", " ", "t", "o", "d", "a", "y", " ", "i", "n", " ", "O", "s", "l", "o">>
U_whats == <<"w", "h", "a", "t", "'", "s", " ", "w", "e", "a", "t", "h", "e", "r", " ", "l", "i", "k", "e", " ", "i", "n", " ", "R", "o", "m", "e", "?">>
U_caps == <<"W", "e", "a", "t", "h", "e", "r", " ", "P", "a", "r", "i", "s">>
U_two == <<"h", "o", "w", "'", "s", " ", "t", "h", "e", " ", "w", "e", "a", "t", "h", "e", "r", " ", "i", "n", " ", "x", " ", "i", "n", " ", "y">>
U_hello == <<"h", "e", "l", "l", "o">>
U_quit == <<"Q", "u", "i", "t">>
U_empty == <<>>
U_blank == <<" ", " ">>

Examples == {U_paris, U_for, U_hows, U_whats, U_caps, U_two, U_hello, U_quit,
             U_empty, U_blank}

\* "weather in " followed by every text of at most MaxTail characters.
TailAlphabet == {" ", "?", "x"}
Tails == UNION {[1..k -> TailAlphabet] : k \in 0..MaxTail}
Utterances == Examples \cup {W_weather_in \o tl : tl \in Tails}

QuitWords == {<<"q", "u", "i", "t">>, <<"e", "x", "i", "t">>, <<"b", "y", "e">>}

\* What call_llm can be handed: an utterance as it is, or stripped by
\* chat_loop.
Messages == Utterances \cup {strip(u) : u \in Utterances}

\* ExtractCity, tabulated over the messages of the model.
CityOf == [m \in Messages |-> ExtractCity(m)]

(***************************************************************************)
(* MCPClient: __init__, call_llm, _call_groq.                              *)
(***************************************************************************)
\* os.getenv(name, default) for a variable whose value is `value` (None: unset).
getenv(value, default) == IF value.t = "null" THEN default ELSE value.v

Placeholder == "your_groq_key_here"
EnvValues == {Null, Str(""), Str(Placeholder), Str("gsk_live_key")}

\* Line 38: self.groq_api_key and self.groq_api_key != "your_groq_key_here"
CredentialAnyNonEmpty(key) == key # ""
Credential(key) == key # "" /\ key # Placeholder

\* The classes the except clause of line 41 catches.
call_llm_catches_requests_only == {"RequestException"}
call_llm_catches == {"Exception"}

NoResponse == [t |-> "none", v |-> ""]
NoValue    == [t |-> "none", v |-> ""]
NoHost     == [exc |-> "none", val |-> NoValue]
NoPrev     == [valid |-> FALSE, message |-> <<>>, host |-> NoHost,
               events |-> <<>>, response |-> NoResponse]

LlmRequest(d)     == [kind |-> "llm", data |-> d, name |-> NoValue, args |-> NoValue]
ToolRequest(n, a) == [kind |-> "tool", data |-> NoValue, name |-> n, args |-> a]

ClientInit ==
    /\ environ \in EnvValues
    /\ groq_api_key = getenv(environ, "")
    /\ pc = "prompt"
    /\ message = <<>>
    /\ data = NoValue
    /\ llm_result = NoValue
    /\ tool_result = NoHost
    /\ events = <<>>
    /\ city = <<>>
    /\ host = NoHost
    /\ llm_failed = FALSE
    /\ last_reply = NoValue
    /\ response = NoResponse
    /\ prev = NoPrev

\* _simple_weather_response up to its await (lines 115-143): the help
\* message, or the call of get_weather. `evs` are the requests sent so far.
StartPatternNoGuard(m, evs, failed) ==
    /\ city' = CityOf[m].city
    /\ events' = evs
    /\ llm_failed' = failed
    /\ host' = NoHost
    /\ pc' = "call_tool_pm"
    /\ response' = NoResponse
StartPattern(m, evs, failed) ==
    LET c == CityOf[m].city
    IN /\ city' = c
       /\ events' = evs
       /\ llm_failed' = failed
       /\ host' = NoHost
       /\ IF c = <<>>
          THEN pc' = "returned" /\ response' = HelpMessage
          ELSE pc' = "call_tool_pm" /\ response' = NoResponse

\* An exception `r` raised inside _call_groq reaches the try of call_llm
\* (lines 39-45): caught, and _simple_weather_response runs; or not caught,
\* and it leaves call_llm.
LlmPathRaises(r, evs) ==
    IF \E k \in call_llm_catches : IsInstance(r.exc, k)
    THEN StartPattern(message, evs, TRUE)
    ELSE /\ pc' = "raised"
         /\ events' = evs
         /\ llm_failed' = FALSE
         /\ response' = NoResponse
         /\ UNCHANGED <<city, host>>

\* call_llm(m, tools_info, client) up to its first request.
Begin(m) ==
    /\ message' = m
    /\ llm_result' = NoValue
    /\ tool_result' = NoHost
    /\ last_reply' = NoValue
    /\ prev' = IF prev.valid /\ prev.message = m THEN prev ELSE NoPrev
    /\ IF Credential(groq_api_key)
       THEN /\ data' = InitialData(m)
            /\ pc' = "post_first"
            /\ events' = <<>>
            /\ city' = <<>>
            /\ host' = NoHost
            /\ llm_failed' = FALSE
            /\ response' = NoResponse
       ELSE /\ data' = NoValue
            /\ StartPattern(m, <<>>, FALSE)
    /\ UNCHANGED <<environ, groq_api_key, svars>>

\* chat_loop, lines 199-211: a line is read; quit words end the loop, a
\* blank line is skipped, anything else goes to call_llm.
Input(raw) ==
    /\ pc = "prompt"
    /\ LET user_input == strip(raw)
       IN IF lower(user_input) \in QuitWords \/ user_input = <<>>
          THEN /\ pc' = IF lower(user_input) \in QuitWords THEN "exited" ELSE "skipped"
               /\ message' = user_input
               /\ prev' = NoPrev
               /\ UNCHANGED <<environ, groq_api_key, data, llm_result, tool_result,
                              events, city, host, llm_failed, last_reply, response,
                              svars>>
          ELSE Begin(user_input)

\* call_llm called with an utterance as it is (not through chat_loop).
CallLlm(m) ==
    /\ pc = "prompt"
    /\ Begin(m)

\* The first reply of the LLM provider arrives (lines 67-76), and
\* _handle_tool_calls runs up to its call of the tool (lines 80-91) or to
\* its return (line 113).
PostFirst(r) ==
    /\ pc = "post_first"
    /\ LET evs    == Append(events, LlmRequest(data))
           result == Fetch(r)
           calls  == IF result.exc # "" THEN result ELSE RequestedCalls(result.val)
       IN IF calls.exc # ""
          THEN LlmPathRaises(calls, evs) /\ UNCHANGED <<llm_result, last_reply>>
          ELSE IF Truthy(calls.val)
               THEN LET first == FirstRaise(<<ToolCall(result.val),
                                              FunctionName(result.val),
                                              Arguments(result.val)>>)
                    IN IF first.exc # ""
                       THEN LlmPathRaises(first, evs) /\ UNCHANGED <<llm_result, last_reply>>
                       ELSE /\ pc' = "call_tool_llm"
                            /\ llm_result' = result.val
                            /\ events' = evs
                            /\ UNCHANGED <<city, host, llm_failed, last_reply, response>>
               ELSE IF Content(result).exc # ""
                    THEN LlmPathRaises(Content(result), evs)
                         /\ UNCHANGED <<llm_result, last_reply>>
                    ELSE /\ pc' = "returned"
                         /\ response' = Content(result).val
                         /\ llm_result' = result.val
                         /\ last_reply' = result.val
                         /\ events' = evs
                         /\ UNCHANGED <<city, host, llm_failed>>
    /\ UNCHANGED <<environ, groq_api_key, message, data, tool_result, prev, svars>>

\* The Tool Host answers the call of line 91; lines 92-107 build the
\* follow-up request.
CallToolLlm(h) ==
    /\ pc = "call_tool_llm"
    /\ LET evs == Append(events, ToolRequest(FunctionName(llm_result).val,
                                             Arguments(llm_result).val))
           next == IF h.exc # "" THEN h
                   ELSE FollowUp(data, llm_result, StrOf(h.val))
       IN IF next.exc # ""
          THEN LlmPathRaises(next, evs) /\ UNCHANGED data
          ELSE /\ pc' = "post_second"
               /\ data' = next.val
               /\ events' = evs
               /\ UNCHANGED <<city, host, llm_failed, response>>
    /\ tool_result' = h
    /\ UNCHANGED <<environ, groq_api_key, message, llm_result, last_reply, prev, svars>>

\* The second reply of the LLM provider arrives (lines 109-113).
PostSecond(r) ==
    /\ pc = "post_second"
    /\ LET evs     == Append(events, LlmRequest(data))
           content == Content(Fetch(r))
       IN IF content.exc # ""
          THEN LlmPathRaises(content, evs) /\ UNCHANGED last_reply
          ELSE /\ pc' = "returned"
               /\ response' = content.val
               /\ last_reply' = Fetch(r).val
               /\ events' = evs
               /\ UNCHANGED <<city, host, llm_failed>>
    /\ UNCHANGED <<environ, groq_api_key, message, data, llm_result, tool_result,
                   prev, svars>>

\* The Tool Host answers the call of line 143; lines 145-169 render it.
CallToolPm(h) ==
    /\ pc = "call_tool_pm"
    /\ events' = Append(events, ToolRequest(Str("get_weather"),
                                            Dict([city |-> Chars(city)])))
    /\ host' = h
    /\ LET out == AfterToolCall(city, h)
       IN IF out.exc = ""
          THEN pc' = "returned" /\ response' = out.val
          ELSE pc' = "raised" /\ response' = NoResponse
    /\ UNCHANGED <<environ, groq_api_key, message, data, llm_result, tool_result,
                   city, llm_failed, last_reply, prev, svars>>

\* chat_loop prints the response (line 212), the error (line 219) or
\* nothing (line 206) and prompts again.
Reprompt ==
    /\ pc \in {"returned", "raised", "skipped"}
    /\ pc' = "prompt"
    /\ prev' = IF pc = "returned" /\ ~Credential(groq_api_key)
               THEN [valid |-> TRUE, message |-> message, host |-> host,
                     events |-> events, response |-> response]
               ELSE NoPrev
    /\ message' = <<>>
    /\ data' = NoValue
    /\ llm_result' = NoValue
    /\ tool_result' = NoHost
    /\ events' = <<>>
    /\ city' = <<>>
    /\ host' = NoHost
    /\ llm_failed' = FALSE
    /\ last_reply' = NoValue
    /\ response' = NoResponse
    /\ UNCHANGED <<environ, groq_api_key, svars>>

ClientNext ==
    \/ \E raw \in Utterances : Input(raw)
    \/ \E m \in Utterances : CallLlm(m)
    \/ \E r \in LlmOutcomes : PostFirst(r)
    \/ \E h \in ToolHostOutcomes : CallToolLlm(h)
    \/ \E r \in LlmOutcomes : PostSecond(r)
    \/ \E h \in ToolHostOutcomes : CallToolPm(h)
    \/ Reprompt

\* The Orchestrator, with the Tool Host's own state left alone.
Init == ClientInit /\ ServerInit
Next == ClientNext
Spec == Init /\ [][Next]_vars

\* The Tool Host, with no client environment set and the chat loop at its prompt.
ServerSpecInit ==
    /\ spc = "idle" /\ tool = "none" /\ days = NoDays
    /\ provider = NoOutcome /\ tool_return = NoReturn
    /\ environ = Null /\ groq_api_key = getenv(Null, "") /\ pc = "prompt"
    /\ message = <<>> /\ data = NoValue /\ llm_result = NoValue
    /\ tool_result = NoHost /\ events = <<>> /\ city = <<>> /\ host = NoHost
    /\ llm_failed = FALSE /\ last_reply = NoValue /\ response = NoResponse
    /\ prev = NoPrev
ServerSpec == ServerSpecInit /\ [][ServerNext]_vars


(***************************************************************************)
(* Properties of the Tool Host (checked under ServerSpec).                 *)
(***************************************************************************)
\* The provider outcome `p` is faulty in something tool `t` reads when
\* called with `d` days: the request, the status, the body, the top of the
\* document and the area for both tools; the current condition and the
\* region for get_weather; the "weather" array for get_weather_forecast,
\* and a day entry when it is among those the loop visits.
DefectReadBy(p, t, d) ==
    \/ p.defect \in {"ConnectionError", "Timeout", "status", "not_json"}
                    \cup TopDefects \cup AreaDefects
    \/ t = "get_weather" /\ p.defect \in CurrentDefects \cup RegionDefects
    \/ t = "get_weather_forecast" /\ p.defect \in WeatherDefects
    \/ /\ t = "get_weather_forecast"
       /\ p.defect \in DayDefects
       /\ p.day <= SliceStop(Len(p.doc.v.weather.v), IF d <= 3 THEN d ELSE 3)

ForecastEntries ==
    IF /\ spc = "returned"
       /\ tool = "get_weather_forecast"
       /\ tool_return.exc = ""
       /\ "forecast" \in DOMAIN tool_return.val.v
    THEN tool_return.val.v.forecast.v
    ELSE <<>>

\* C8: get_weather_forecast returns at most 3 forecast entries, for every
\* value of `days` and every weather-provider response.
C8_AtMostThreeEntries == Len(ForecastEntries) <= 3

\* C8, for days >= 0 only: at most 3 forecast entries.
C8_AtMostThreeEntriesFromZero == days >= 0 => Len(ForecastEntries) <= 3

\* C8, for the 3 day entries wttr.in sends: at most 3 forecast entries.
C8_AtMostThreeEntriesOfProviderDays ==
    (provider.doc.t = "dict" /\ "weather" \in DOMAIN provider.doc.v
        /\ provider.doc.v.weather.t = "list"
        /\ Len(provider.doc.v.weather.v) <= ProviderDays)
    => Len(ForecastEntries) <= 3

(***************************************************************************)
(* Properties of the Orchestrator (checked under Spec).                    *)
(***************************************************************************)
ToolEvents == {i \in 1..Len(events) : events[i].kind = "tool"}
LlmEvents  == {i \in 1..Len(events) : events[i].kind = "llm"}

\* call_llm returned what _call_groq returned (line 40).
LlmPathReturned ==
    /\ pc = "returned"
    /\ groq_api_key \notin {"", Placeholder}
    /\ ~llm_failed

\* The assistant message of the first reply and its tool-call requests.
FirstMessage == llm_result.v.choices.v[1].v.message
FirstCalls ==
    IF "tool_calls" \in DOMAIN FirstMessage.v /\ FirstMessage.v.tool_calls.t = "list"
    THEN FirstMessage.v.tool_calls.v
    ELSE <<>>

\* C1: when call_llm returns the LLM path's result, the first request
\* carried system message, user message and tool schema; if the first reply
\* held tool-call requests, exactly three requests were sent, in the order
\* LLM, Tool Host, LLM: the Tool Host call has the name and the decoded
\* arguments of the first tool-call request, the second LLM request has the
\* messages system, user, original assistant message, tool result and no
\* tool schema, and the text returned is the content of the second reply;
\* if the first reply held no tool-call request, its content is returned
\* and the first request is the only request sent.
C1_ToolCallExchange ==
    LlmPathReturned =>
        /\ events[1].kind = "llm"
        /\ "tools" \in DOMAIN events[1].data.v
        /\ events[1].data.v.messages.v = <<SystemMessage, UserMessage(message)>>
        /\ IF FirstCalls # <<>>
           THEN /\ Len(events) = 3
                /\ events[2] = ToolRequest(FirstCalls[1].v.function.v.name,
                                           JsonTexts[FirstCalls[1].v.function.v.arguments.v])
                /\ events[3].kind = "llm"
                /\ "tools" \notin DOMAIN events[3].data.v
                /\ events[3].data.v.messages.v =
                       <<SystemMessage, UserMessage(message), FirstMessage,
                         Dict([role |-> Str("tool"),
                               tool_call_id |-> FirstCalls[1].v.id,
                               content |-> StrOf(tool_result.val)])>>
                /\ response = last_reply.v.choices.v[1].v.message.v.content
           ELSE /\ Len(events) = 1
                /\ response = FirstMessage.v.content

\* C1 witness: the LLM path returned after a first reply with two different
\* tool-call requests.
C1_Witness ==
    /\ LlmPathReturned
    /\ Len(FirstCalls) >= 2
    /\ FirstCalls[1].v.function.v.name # FirstCalls[2].v.function.v.name
    /\ Len(events) = 3

\* C2: with an LLM credential configured, no exception leaves call_llm;
\* once the LLM path has failed, _simple_weather_response runs, and what
\* call_llm returns is what _simple_weather_response returns for the
\* utterance: the help message, or the rendering of the Tool Host's answer
\* for the extracted city.
C2_LlmFailureFallsBack ==
    /\ pc # "raised"
    /\ llm_failed =>
          /\ groq_api_key \notin {"", Placeholder}
          /\ pc \in {"call_tool_pm", "returned"}
          /\ pc = "returned" =>
                IF CityOf[message].city = <<>>
                THEN response = HelpMessage /\ host.exc = "none"
                ELSE /\ host.exc # "none"
                     /\ events[Len(events)] =
                            ToolRequest(Str("get_weather"),
                                        Dict([city |-> Chars(CityOf[message].city)]))
                     /\ response = AfterToolCall(CityOf[message].city, host).val

\* C2 witness: the follow-up LLM request failed after the tool had been
\* called, and call_llm returned the PatternMatch text.
C2_Witness ==
    /\ llm_failed
    /\ pc = "returned"
    /\ Len(events) = 4
    /\ events[2].kind = "tool"
    /\ events[3].kind = "llm"
    /\ response.t = "fstr"

NoCredential == environ \in {Null, Str(""), Str(Placeholder)}

\* C3: without an LLM credential (unset, empty or the placeholder) no
\* request is ever sent to the LLM provider, and an utterance handled again
\* with the same Tool Host answer gives the same tool invocation and the
\* same returned text.
C3_NoCredentialIsPatternMatch ==
    NoCredential =>
        /\ LlmEvents = {}
        /\ pc \notin {"post_first", "call_tool_llm", "post_second"}
        /\ ~llm_failed
        /\ (pc = "returned" /\ prev.valid /\ prev.message = message
                /\ prev.host = host)
           => (prev.events = events /\ prev.response = response)

\* C3 witness: with the placeholder as credential, the same utterance was
\* handled twice with the same Tool Host answer.
C3_Witness ==
    /\ environ = Str(Placeholder)
    /\ pc = "returned"
    /\ prev.valid
    /\ prev.message = message
    /\ prev.host = host
    /\ host.exc = ""
    /\ Len(events) = 1

\* The mapping a Tool Host answer holds: the answer itself, or what it
\* decodes to when it is a JSON text.
MappingOf(x) ==
    IF x.t = "dict" THEN x
    ELSE IF x.t = "str" /\ x.v \in DOMAIN JsonTexts /\ JsonTexts[x.v].t = "dict"
         THEN JsonTexts[x.v]
         ELSE Dict(<<>>)

\* C5: whatever the Tool Host answers to _simple_weather_response (a fault
\* included), the function returns a text; when the answer is a mapping
\* with an `error` field, or a JSON text of one, the text holds that error.
C5_ErrorResultsAreRendered ==
    host.exc # "none" =>
        /\ pc = "returned"
        /\ response.t = "fstr"
        /\ (host.exc = "" /\ "error" \in DOMAIN MappingOf(host.val).v)
           => \E i \in 1..Len(response.v) :
                 response.v[i] = MappingOf(host.val).v.error

\* C5 witness: the Tool Host answered with the JSON text of an error
\* mapping.
C5_Witness ==
    /\ pc = "returned"
    /\ host.exc = ""
    /\ host.val.t = "str"
    /\ host.val.v = "{\"error\": \"boom\"}"

\* _simple_weather_response is running or has returned.
PatternMatchRan ==
    /\ pc \in {"call_tool_pm", "returned"}
    /\ groq_api_key \in {"", Placeholder} \/ llm_failed

\* For every message: the patterns that match it, lower-cased and trimmed,
\* and the trimmed group of the first of them.
FirstMatch ==
    [m \in Messages |->
        LET q    == strip(lower(m))
            hits == {i \in 1..5 : re_search(weather_patterns[i], q).matched}
        IN [hits |-> hits,
            city |-> IF hits = {} THEN <<>>
                     ELSE strip(re_search(weather_patterns[SetMin(hits)], q).group1)]]

\* The Tool Host call _simple_weather_response made, if it made one.
PatternMatchCalls ==
    IF host.exc = "none" THEN <<>> ELSE <<events[Len(events)]>>

\* C6 as claimed: the first pattern that matches determines the city and
\* the weather tool is then called with {"city": city}; "What's the weather
\* in Paris?" gives "paris"; an utterance that matches no pattern gives the
\* help message.
C6_FirstMatchInvokesTool ==
    PatternMatchRan =>
        /\ message = U_paris => city = W_paris
        /\ IF FirstMatch[message].hits = {}
           THEN pc = "returned" /\ response = HelpMessage /\ PatternMatchCalls = <<>>
           ELSE /\ city = FirstMatch[message].city
                /\ pc = "returned" =>
                      PatternMatchCalls =
                          <<ToolRequest(Str("get_weather"), Dict([city |-> Chars(city)]))>>

\* C6 as amended: the first pattern that matches determines the city; when
\* that city is not empty the weather tool is called with {"city": city};
\* when no pattern matches, or the first match captures only whitespace,
\* the help message is returned and no tool is called.
C6_FirstMatchInvokesToolUnlessBlank ==
    PatternMatchRan =>
        /\ message = U_paris => city = W_paris
        /\ city = FirstMatch[message].city
        /\ IF city = <<>>
           THEN pc = "returned" /\ response = HelpMessage /\ PatternMatchCalls = <<>>
           ELSE pc = "returned" =>
                    PatternMatchCalls =
                        <<ToolRequest(Str("get_weather"), Dict([city |-> Chars(city)]))>>

\* C6 witness: "What's the weather in Paris?" led to get_weather({"city":
\* "paris"}).
C6_Witness ==
    /\ PatternMatchRan
    /\ pc = "returned"
    /\ message = U_paris
    /\ PatternMatchCalls =
           <<ToolRequest(Str("get_weather"), Dict([city |-> Chars(W_paris)]))>>

\* C7 as claimed: an empty or whitespace-only utterance gives the help
\* message and no tool call.
C7_BlankGivesHelp ==
    (pc \in {"skipped", "returned"} /\ strip(message) = <<>>)
    => (response = HelpMessage /\ ToolEvents = {})

\* C7 as amended: chat_loop skips an empty or whitespace-only line without
\* any text and without any request; _simple_weather_response, handed an
\* empty or whitespace-only utterance, returns the help message and calls
\* no tool; call_llm with a credential sends such an utterance to the LLM
\* provider first, as it does any other.
C7_BlankSkippedOrHelp ==
    /\ pc = "skipped" =>
          (strip(message) = <<>> /\ response = NoResponse /\ events = <<>>)
    /\ (strip(message) = <<>> /\ groq_api_key \notin {"", Placeholder}
            /\ pc \in {"call_tool_llm", "post_second", "call_tool_pm", "returned"})
       => (events # <<>> /\ events[1] = LlmRequest(InitialData(message)))
    /\ (PatternMatchRan /\ strip(message) = <<>>) =>
          /\ pc = "returned"
          /\ response = HelpMessage
          /\ PatternMatchCalls = <<>>
          /\ ~llm_failed => events = <<>>

\* C7 witness: a whitespace-only utterance reached _simple_weather_response
\* and the help message came back.
C7_Witness ==
    /\ PatternMatchRan
    /\ pc = "returned"
    /\ message = U_blank
    /\ response = HelpMessage

\* The keys of the template's slots, in order; slot k's value is piece 2k of
\* the rendered text.
SlotKeys == <<"city", "temperature", "feels_like", "description", "humidity",
              "wind_speed", "wind_direction", "visibility", "uv_index">>
SlotValue(f) == response.v[2 * (CHOOSE k \in 1..Len(SlotKeys) : SlotKeys[k] = f)]

\* _simple_weather_response got a mapping without an `error` field.
PlainMappingAnswered ==
    /\ host.exc = ""
    /\ host.val.t = "dict"
    /\ "error" \notin DOMAIN host.val.v

\* C9 as claimed: each of the eight fields that is absent from the mapping
\* shows as "N/A" in its slot.
C9_AbsentFieldsAreNA ==
    PlainMappingAnswered =>
        /\ pc = "returned"
        /\ \A f \in {"humidity", "temperature", "feels_like", "description",
                     "wind_speed", "wind_direction", "visibility", "uv_index"} :
              f \notin DOMAIN host.val.v => SlotValue(f) = Str("N/A")

\* C9 as amended: rendering returns a text; each of temperature, feels_like,
\* description, humidity, wind_speed, visibility and uv_index that is absent
\* shows as "N/A" in its slot, an absent wind_direction shows as the empty
\* string, and an absent city shows as the extracted city.
C9_AbsentFieldsAreNAButWindDirection ==
    PlainMappingAnswered =>
        /\ pc = "returned"
        /\ response.t = "fstr"
        /\ Len(response.v) = 2 * Len(SlotKeys)
        /\ \A f \in {"humidity", "temperature", "feels_like", "description",
                     "wind_speed", "visibility", "uv_index"} :
              f \notin DOMAIN host.val.v => SlotValue(f) = Str("N/A")
        /\ "wind_direction" \notin DOMAIN host.val.v =>
              SlotValue("wind_direction") = Str("")
        /\ "city" \notin DOMAIN host.val.v => SlotValue("city") = Chars(city)

\* C9 witness: a mapping without humidity and without wind_direction was
\* rendered.
C9_Witness ==
    /\ PlainMappingAnswered
    /\ pc = "returned"
    /\ "humidity" \notin DOMAIN host.val.v
    /\ "wind_direction" \notin DOMAIN host.val.v
    /\ SlotValue("humidity") = Str("N/A")

\* C10: for one utterance, call_tool is invoked at most once.
C10_AtMostOneToolCall == Cardinality(ToolEvents) <= 1

\* C10, for the requests of _call_groq alone (those sent before the except
\* clause of call_llm is entered): at most one call_tool.
C10_AtMostOneToolCallBeforeFallback ==
    ~llm_failed => Cardinality(ToolEvents) <= 1

=============================================================================
